---- MODULE Spec2Model ----
(***************************************************************************)
(* The users router of weatherboss2 (src/users/router.js): registration    *)
(* with field validation, the count-then-create chain, and the lookups and *)
(* targeted updates of a user's locations and metric preference.           *)
(*                                                                         *)
(* A request is a slot r: op[r] is its route, body[r] its inputs, pc[r]    *)
(* the store call it is suspended on, resp[r] the responses sent so far    *)
(* calls[r] the store / hashing calls it has issued, carry[r] the value    *)
(* its promise chain hands on, and fault[r] the error its failing call     *)
(* raised (Null when none has).  The store is the sequence users;          *)
(* users[i] is the document whose id is i.                                 *)
(***************************************************************************)
EXTENDS Integers, Sequences, FiniteSets, TLC

VARIABLES users, nextLocId, op, body, pc, resp, calls, carry, fault

vars == <<users, nextLocId, op, body, pc, resp, calls, carry, fault>>

(***************************************************************************)
(* Bounds of the model.                                                    *)
(***************************************************************************)
\* requests received in one run
MaxReqs == 2
\* every string over Chars up to this length is a candidate field value
MaxShortLen == 5
\* candidate long strings carry 0..MaxPad blanks at each end
MaxPad == 1
\* candidate long strings have PwMax - 1 .. PwMax + MaxOver inner characters
MaxOver == 1

Reqs == 1..MaxReqs

(***************************************************************************)
(* Program constants: sizedFields.                                         *)
(***************************************************************************)
UserMin == 1
PwMin == 4
PwMax == 72

(***************************************************************************)
(* JavaScript values of a JSON body.  A field is absent, a non-string      *)
(* (a number, null, ...) or a string, a sequence of characters.            *)
(***************************************************************************)
Chars == {" ", "a"}

None == "none"

Absent == [t |-> "absent", s |-> <<>>]

NonString == [t |-> "num", s |-> <<>>]

Str(s) == [t |-> "str", s |-> s]

Rep(c, n) == [i \in 1..n |-> c]

\* String.prototype.trim
RECURSIVE TrimLeft(_)
TrimLeft(s) == IF s # <<>> /\ Head(s) = " " THEN TrimLeft(Tail(s)) ELSE s

RECURSIVE TrimRight(_)
TrimRight(s) ==
  IF s # <<>> /\ s[Len(s)] = " " THEN TrimRight(SubSeq(s, 1, Len(s) - 1)) ELSE s

Trim(s) == TrimRight(TrimLeft(s))

\* the field names
Fields == {"username", "password"}

\* Array.prototype.find over a list of field names: the first of them among
\* those that satisfy the callback, or undefined
Find(fields, satisfying) ==
  LET hits == {i \in 1..Len(fields) : fields[i] \in satisfying}
  IN  IF hits = {} THEN None
      ELSE fields[CHOOSE i \in hits : \A j \in hits : i <= j]

\* field in req.body
In(field, b) == b[field].t # "absent"

(***************************************************************************)
(* router.post("/"): the validation stages.                                *)
(***************************************************************************)
RequiredFields == <<"username", "password">>

StringFields == <<"username", "password">>

ExplicityTrimmedFields == <<"username", "password">>

SizedFields ==
  [username |-> [hasMin |-> TRUE, min |-> UserMin, hasMax |-> FALSE, max |-> 0],
   password |-> [hasMin |-> TRUE, min |-> PwMin, hasMax |-> TRUE, max |-> PwMax]]

\* Object.keys(sizedFields)
SizedKeys == <<"username", "password">>

MissingFieldPasswordFirst(b) ==
  Find(<<"password", "username">>, {f \in Fields : ~In(f, b)})

MissingField(b) == Find(RequiredFields, {f \in Fields : ~In(f, b)})

NonStringField(b) ==
  Find(StringFields, {f \in Fields : In(f, b) /\ b[f].t # "str"})

NonTrimmedField(b) ==
  Find(ExplicityTrimmedFields, {f \in Fields : Trim(b[f].s) # b[f].s})

TooSmallFieldInclusive(b) ==
  Find(SizedKeys,
       {f \in Fields : SizedFields[f].hasMin /\ Len(Trim(b[f].s)) <= SizedFields[f].min})

TooSmallField(b) ==
  Find(SizedKeys,
       {f \in Fields : SizedFields[f].hasMin /\ Len(Trim(b[f].s)) < SizedFields[f].min})

TooLargeFieldNever(b) == None

TooLargeField(b) ==
  Find(SizedKeys,
       {f \in Fields : SizedFields[f].hasMax /\ Len(Trim(b[f].s)) > SizedFields[f].max})

ValidationError(message, location) ==
  [code |-> 422, reason |-> "ValidationError", message |-> message,
   location |-> location]

Response(status, json) == [status |-> status, body |-> json]

MinMessage(field) ==
  "Must be at least " \o ToString(SizedFields[field].min) \o " characters long"

MaxMessage(field) ==
  "Must be at most " \o ToString(SizedFields[field].max) \o " characters long"

\* The responses the validation stages send: none, or the first failure's.
Validate(b) ==
  IF MissingField(b) # None
  THEN <<Response(422, ValidationError("Missing field", MissingField(b)))>>
  ELSE IF NonStringField(b) # None
  THEN <<Response(422, ValidationError("Incorrect field type: expected string",
                                       NonStringField(b)))>>
  ELSE IF NonTrimmedField(b) # None
  THEN <<Response(422, ValidationError("Cannot start or end with whitespace",
                                       NonTrimmedField(b)))>>
  ELSE IF TooSmallField(b) # None \/ TooLargeField(b) # None
  THEN <<Response(422,
           ValidationError(
             IF TooSmallField(b) # None THEN MinMessage(TooSmallField(b))
                                        ELSE MaxMessage(TooLargeField(b)),
             IF TooSmallField(b) # None THEN TooSmallField(b)
                                        ELSE TooLargeField(b)))>>
  ELSE <<>>

(***************************************************************************)
(* The User model and the store (./models, mongoose).                      *)
(***************************************************************************)
\* the value a new document's metric flag takes
DefaultMetric == FALSE

\* User.hashPassword: the stored form of a password, never the password
Hash(password) == <<"#">> \o password

\* the document User.create({username, password: hash}) persists
NewUser(id, username, hash) ==
  [id |-> id, username |-> username, password |-> hash, locations |-> <<>>,
   metric |-> DefaultMetric]

\* User.create(doc): the store persists the document; the check of the
\* username is the handler's count, the store makes none of its own
Create(us, doc) == Append(us, doc)

\* user.serialize(): the representation without the password
Serialize(user) ==
  [id |-> user.id, username |-> user.username, locations |-> user.locations,
   metric |-> user.metric]

\* a lookup that matched no document yields null
Null == [isNull |-> TRUE]

\* an id that is no ObjectId: casting it fails
BadId == 0

CastError == [name |-> "CastError", message |-> "Cast to ObjectId failed"]

\* the store is unreachable, or the call fails otherwise
StoreErrors ==
  {[name |-> "MongoError", message |-> "connection refused"],
   [name |-> "MongooseServerSelectionError", message |-> "connection refused",
    reason |-> "TopologyDescription"]}

HashErrors == {[name |-> "Error", message |-> "data and salt arguments required"]}

\* User.find({ username }).count()
CountUsers(us, username) ==
  Cardinality({i \in 1..Len(us) : us[i].username = username})

\* User.findById(id)
FindById(us, id) == IF id \in 1..Len(us) THEN us[id] ELSE Null

\* the errors a call that casts id to an ObjectId can end in
LookupErrors(id) == IF id = BadId THEN {CastError} ELSE StoreErrors

(***************************************************************************)
(* router.post("/"): the count-then-create chain.                          *)
(***************************************************************************)
Done(r) == pc' = [pc EXCEPT ![r] = "done"]

Send(r, responses) == resp' = [resp EXCEPT ![r] = @ \o responses]

Call(r, name) == calls' = [calls EXCEPT ![r] = Append(@, name)]

TakenError == ValidationError("Username already taken", "username")

InternalError == [code |-> 500, message |-> "Internal server error"]

UsernameTakenAboveOne(count) == count > 1

\* count > 0
UsernameTaken(count) == count > 0

CatchRegisterLeaksMessage(err) ==
  IF "reason" \in DOMAIN err /\ err.reason = "ValidationError"
  THEN <<Response(err.code, err)>>
  ELSE <<Response(500, [code |-> 500, message |-> err.message])>>

\* the chain's .catch
CatchRegister(err) ==
  IF "reason" \in DOMAIN err /\ err.reason = "ValidationError"
  THEN <<Response(err.code, err)>>
  ELSE <<Response(500, InternalError)>>

\* a rejection anywhere in the chain skips to the .catch
Reject(r, err) ==
  /\ Send(r, CatchRegister(err))
  /\ Done(r)
  /\ fault' = [fault EXCEPT ![r] = IF err = TakenError THEN @ ELSE err]
  /\ UNCHANGED <<users, nextLocId, op, body, calls, carry>>

\* the synchronous part of the handler: validation, then the count is issued
RegisterStart(r) ==
  /\ pc[r] = "new"
  /\ op[r] = "register"
  /\ IF Validate(body[r]) # <<>>
     THEN /\ Send(r, Validate(body[r]))
          /\ Done(r)
          /\ UNCHANGED calls
     ELSE /\ pc' = [pc EXCEPT ![r] = "count"]
          /\ Call(r, "count")
          /\ UNCHANGED resp
  /\ UNCHANGED <<users, nextLocId, op, body, carry, fault>>

\* the count resolves (or fails); .then(count => ...)
CountDone(r) ==
  /\ pc[r] = "count"
  /\ \/ \E err \in StoreErrors : Reject(r, err)
     \/ /\ UsernameTaken(CountUsers(users, body[r].username.s))
        /\ Reject(r, TakenError)
     \/ /\ ~UsernameTaken(CountUsers(users, body[r].username.s))
        /\ pc' = [pc EXCEPT ![r] = "hash"]
        /\ Call(r, "hashPassword")
        /\ UNCHANGED <<users, nextLocId, op, body, resp, carry, fault>>

\* the hash resolves (or fails); .then(hash => User.create(...))
HashDone(r) ==
  /\ pc[r] = "hash"
  /\ \/ \E err \in HashErrors : Reject(r, err)
     \/ /\ carry' = [carry EXCEPT ![r] = Hash(body[r].password.s)]
        /\ pc' = [pc EXCEPT ![r] = "create"]
        /\ Call(r, "create")
        /\ UNCHANGED <<users, nextLocId, op, body, resp, fault>>

\* the create resolves (or fails); .then(user => res.status(201)...)
CreateDone(r) ==
  /\ pc[r] = "create"
  /\ \/ \E err \in StoreErrors : Reject(r, err)
     \/ /\ users' = Create(users,
                           NewUser(Len(users) + 1, body[r].username.s, carry[r]))
        /\ Send(r, <<Response(201, Serialize(users'[Len(users')]))>>)
        /\ Done(r)
        /\ UNCHANGED <<nextLocId, op, body, calls, carry, fault>>

(***************************************************************************)
(* router.get("/:id"), router.get("/locations/:id"),                       *)
(* router.get("/metric/:id").                                              *)
(***************************************************************************)
ReadOps == {"getUser", "getLocations", "getMetric"}

\* what the handler hands to res.json for the document found
ReadBody(o, user) ==
  CASE o = "getUser" -> user
    [] o = "getLocations" -> [locations |-> user.locations]
    [] o = "getMetric" -> [metric |-> user.metric]

\* .then(user => ...)
ReadResponse(o, user) ==
  IF user = Null THEN <<Response(404, Null)>>
  ELSE <<Response(200, ReadBody(o, user))>>

\* .catch(err => next(err)): the handler's parameters are (req, res), so
\* next is unbound; the call throws a ReferenceError and nothing is sent
CatchRead(err) == <<>>

ReadStart(r) ==
  /\ pc[r] = "new"
  /\ op[r] \in ReadOps
  /\ pc' = [pc EXCEPT ![r] = "find"]
  /\ Call(r, "findById")
  /\ UNCHANGED <<users, nextLocId, op, body, resp, carry, fault>>

FindDone(r) ==
  /\ pc[r] = "find"
  /\ \/ \E err \in LookupErrors(body[r].id) :
          /\ Send(r, CatchRead(err))
          /\ fault' = [fault EXCEPT ![r] = err]
     \/ /\ body[r].id # BadId
        /\ Send(r, ReadResponse(op[r], FindById(users, body[r].id)))
        /\ UNCHANGED fault
  /\ Done(r)
  /\ UNCHANGED <<users, nextLocId, op, body, calls, carry>>

(***************************************************************************)
(* router.post("/newlocation/:id"), router.delete("/deletelocation/:id"),  *)
(* router.put("/metric/:id"): findByIdAndUpdate with { new: true }.        *)
(***************************************************************************)
UpdateOps == {"addLocation", "deleteLocation", "setMetric"}

PushLocationOverwrite(locations, entry) == <<entry>>

\* $push: { locations: entry }
PushLocation(locations, entry) == Append(locations, entry)

PullLocationFirst(locations, locationId) ==
  IF locations = <<>> THEN locations ELSE Tail(locations)

\* $pull: { locations: { _id: locationId } }
PullLocation(locations, locationId) ==
  SelectSeq(locations, LAMBDA e : e.id # locationId)

\* $set: { metric: value }
SetMetric(user, value) == [user EXCEPT !.metric = value]

\* the document after the handler's update operator; newId is the _id the
\* store gives a pushed entry
Updated(user, o, b, newId) ==
  CASE o = "addLocation" ->
         [user EXCEPT !.locations = PushLocation(@, [id |-> newId, name |-> b.name])]
    [] o = "deleteLocation" ->
         [user EXCEPT !.locations = PullLocation(@, b.locationId)]
    [] o = "setMetric" -> SetMetric(user, b.metric)

\* the store after findByIdAndUpdate(id, update): one document, atomically
FindByIdAndUpdate(us, id, o, b, newId) ==
  IF id \in 1..Len(us) THEN [us EXCEPT ![id] = Updated(@, o, b, newId)] ELSE us

\* function(err, newData): on err the handler only logs (console.err is no
\* function, so the add handler throws there); else res.send(newData)
UpdateCallback(err, newData) ==
  IF err # Null THEN <<>> ELSE <<Response(200, newData)>>

UpdateStart(r) ==
  /\ pc[r] = "new"
  /\ op[r] \in UpdateOps
  /\ pc' = [pc EXCEPT ![r] = "update"]
  /\ Call(r, "findByIdAndUpdate")
  /\ UNCHANGED <<users, nextLocId, op, body, resp, carry, fault>>

UpdateDone(r) ==
  /\ pc[r] = "update"
  /\ \/ /\ \E err \in LookupErrors(body[r].id) :
             /\ Send(r, UpdateCallback(err, Null))
             /\ fault' = [fault EXCEPT ![r] = err]
        /\ UNCHANGED <<users, nextLocId>>
     \/ /\ body[r].id # BadId
        /\ users' = FindByIdAndUpdate(users, body[r].id, op[r], body[r], nextLocId)
        /\ nextLocId' = IF op[r] = "addLocation" THEN nextLocId + 1 ELSE nextLocId
        /\ Send(r, UpdateCallback(Null, FindById(users', body[r].id)))
        /\ UNCHANGED fault
  /\ Done(r)
  /\ UNCHANGED <<op, body, calls, carry>>

(***************************************************************************)
(* Requests.                                                               *)
(***************************************************************************)
Body(username, password, id, name, locationId, metric) ==
  [username |-> username, password |-> password, id |-> id, name |-> name,
   locationId |-> locationId, metric |-> metric]

NoBody == Body(Absent, Absent, BadId, <<>>, 0, FALSE)

RegisterBody(username, password) ==
  [NoBody EXCEPT !.username = username, !.password = password]

ValidPassword == Rep("a", PwMin)

\* every string over Chars of length at most MaxShortLen
ShortStrings == UNION {[1..n -> Chars] : n \in 0..MaxShortLen}

\* strings around the upper length bound, with and without blanks at the ends
LongStrings ==
  {Rep(" ", i) \o Rep("a", n) \o Rep(" ", j) :
     i \in 0..MaxPad, j \in 0..MaxPad, n \in (PwMax - 1)..(PwMax + MaxOver)}

FieldValues == {Absent, NonString} \cup {Str(s) : s \in ShortStrings \cup LongStrings}

\* the registration payloads the validation is run on
WidePayloads == {RegisterBody(u, p) : u \in FieldValues, p \in FieldValues}

Usernames == {<<"a">>, <<"b">>}

IdParams == {BadId, 1, 2}

LocationIds == {1, 2}

LocationNames == {<<"P">>}

\* the requests of the concurrent specification
Requests ==
  [op : {"register"},
   body : {RegisterBody(Str(u), p) : u \in Usernames,
                                    p \in {Str(ValidPassword), Absent}}]
  \cup [op : ReadOps, body : {[NoBody EXCEPT !.id = i] : i \in IdParams}]
  \cup [op : {"addLocation"},
        body : {[NoBody EXCEPT !.id = i, !.name = n] :
                  i \in IdParams, n \in LocationNames}]
  \cup [op : {"deleteLocation"},
        body : {[NoBody EXCEPT !.id = i, !.locationId = l] :
                  i \in IdParams, l \in LocationIds}]
  \cup [op : {"setMetric"},
        body : {[NoBody EXCEPT !.id = i, !.metric = m] :
                  i \in IdParams, m \in BOOLEAN}]

\* a request arrives and its handler is entered
Receive(r) ==
  /\ pc[r] = "idle"
  /\ \A q \in Reqs : q < r => pc[q] # "idle"
  /\ \E req \in Requests :
       /\ op' = [op EXCEPT ![r] = req.op]
       /\ body' = [body EXCEPT ![r] = req.body]
  /\ pc' = [pc EXCEPT ![r] = "new"]
  /\ UNCHANGED <<users, nextLocId, resp, calls, carry, fault>>

\* stores the service can start on: an empty one, and one holding a user
\* registered as "a" with one location
SeedUser ==
  [NewUser(1, <<"a">>, Hash(ValidPassword))
     EXCEPT !.locations = <<[id |-> 1, name |-> <<"P">>]>>]

SeedStores == {<<>>, <<SeedUser>>}

NextFreeLocId(us) ==
  1 + Cardinality(UNION {{us[i].locations[k].id : k \in 1..Len(us[i].locations)} :
                           i \in 1..Len(us)})

Init ==
  /\ users \in SeedStores
  /\ nextLocId = NextFreeLocId(users)
  /\ op = [r \in Reqs |-> "none"]
  /\ body = [r \in Reqs |-> NoBody]
  /\ pc = [r \in Reqs |-> "idle"]
  /\ resp = [r \in Reqs |-> <<>>]
  /\ calls = [r \in Reqs |-> <<>>]
  /\ carry = [r \in Reqs |-> <<>>]
  /\ fault = [r \in Reqs |-> Null]

Next ==
  \E r \in Reqs :
    \/ Receive(r)
    \/ RegisterStart(r)
    \/ CountDone(r)
    \/ HashDone(r)
    \/ CreateDone(r)
    \/ ReadStart(r)
    \/ FindDone(r)
    \/ UpdateStart(r)
    \/ UpdateDone(r)

Spec == Init /\ [][Next]_vars

(***************************************************************************)
(* The registration handler alone, on every payload of WidePayloads.       *)
(***************************************************************************)
InitRegister ==
  /\ users \in SeedStores
  /\ nextLocId = NextFreeLocId(users)
  /\ op = [r \in Reqs |-> IF r = 1 THEN "register" ELSE "none"]
  /\ body \in {[r \in Reqs |-> IF r = 1 THEN b ELSE NoBody] : b \in WidePayloads}
  /\ pc = [r \in Reqs |-> IF r = 1 THEN "new" ELSE "idle"]
  /\ resp = [r \in Reqs |-> <<>>]
  /\ calls = [r \in Reqs |-> <<>>]
  /\ carry = [r \in Reqs |-> <<>>]
  /\ fault = [r \in Reqs |-> Null]

NextRegister ==
  \E r \in Reqs :
    \/ RegisterStart(r)
    \/ CountDone(r)
    \/ HashDone(r)
    \/ CreateDone(r)

SpecRegister == InitRegister /\ [][NextRegister]_vars

(***************************************************************************)
(* Properties.  What a payload violates is stated here on the payload      *)
(* itself, not through the handler's stages.                               *)
(***************************************************************************)
Registering(r) == op[r] = "register"

\* the request took a step
Stepped(r) == pc'[r] # pc[r]

BothPresent(b) == b.username.t # "absent" /\ b.password.t # "absent"

BothStrings(b) == b.username.t = "str" /\ b.password.t = "str"

\* the string differs from its trimmed form
BoundaryBlank(s) == s # <<>> /\ (s[1] = " " \/ s[Len(s)] = " ")

\* the payload passes the presence, type and whitespace rules
WellFormed(b) ==
  BothStrings(b) /\ ~BoundaryBlank(b.username.s) /\ ~BoundaryBlank(b.password.s)

LengthsInBounds(b) ==
  Len(b.username.s) >= 1 /\ Len(b.password.s) >= 4 /\ Len(b.password.s) <= 72

PayloadInvalid(b) == ~(WellFormed(b) /\ LengthsInBounds(b))

\* the one response of r is the 422 ValidationError with this message and
\* location
Sent422(r, message, location) ==
  /\ pc[r] = "done"
  /\ resp[r] = <<[status |-> 422,
                  body |-> [code |-> 422, reason |-> "ValidationError",
                            message |-> message, location |-> location]]>>

\* C1: a Register request whose payload fails a validation rule is answered
\* 422 by the step that validates it, and issues no store or hashing call,
\* before or after: its call log stays empty, it is never suspended on a
\* call, and the stored users are unchanged by its step.
C1_InvalidPayloadTouchesNoStore ==
  [][\A r \in Reqs :
       (Registering(r)' /\ PayloadInvalid(body'[r])) =>
         /\ calls'[r] = <<>>
         /\ carry'[r] = <<>>
         /\ pc'[r] \in {"new", "done"}
         /\ Stepped(r) =>
              /\ users' = users
              /\ Len(resp'[r]) = 1
              /\ resp'[r][1].status = 422
              /\ resp'[r][1].body.reason = "ValidationError"]_vars

\* C1 witness: a payload with an over-long password has been answered 422
\* with no call issued.
C1_Witness ==
  \E r \in Reqs :
    /\ Registering(r)
    /\ BothStrings(body[r])
    /\ Len(body[r].password.s) > 72
    /\ Len(body[r].username.s) >= 1
    /\ ~BoundaryBlank(body[r].password.s)
    /\ pc[r] = "done"
    /\ resp[r][1].status = 422
    /\ calls[r] = <<>>

\* C2: once a Register payload has been validated, the response is that of
\* the first violated rule in the order presence, type, whitespace, and
\* within a rule username comes before password; the type error is sent
\* only when both keys are present and the whitespace error only when both
\* fields are strings.
C2_FirstViolatedRuleReported ==
  \A r \in Reqs :
    (Registering(r) /\ pc[r] # "new") =>
      LET b == body[r]
          typeMsg == "Incorrect field type: expected string"
          blankMsg == "Cannot start or end with whitespace"
      IN  /\ b.username.t = "absent" => Sent422(r, "Missing field", "username")
          /\ (b.username.t # "absent" /\ b.password.t = "absent") =>
               Sent422(r, "Missing field", "password")
          /\ (BothPresent(b) /\ b.username.t # "str") =>
               Sent422(r, typeMsg, "username")
          /\ (BothPresent(b) /\ b.username.t = "str" /\ b.password.t # "str") =>
               Sent422(r, typeMsg, "password")
          /\ (BothStrings(b) /\ BoundaryBlank(b.username.s)) =>
               Sent422(r, blankMsg, "username")
          /\ (BothStrings(b) /\ ~BoundaryBlank(b.username.s)
                /\ BoundaryBlank(b.password.s)) =>
               Sent422(r, blankMsg, "password")
          /\ \A i \in 1..Len(resp[r]) :
               resp[r][i].status = 422 =>
                 /\ resp[r][i].body.message = typeMsg => BothPresent(b)
                 /\ resp[r][i].body.message = blankMsg => BothStrings(b)

\* C2 witness: both keys are missing and the response names username.
C2_Witness ==
  \E r \in Reqs :
    /\ Registering(r)
    /\ body[r].username.t = "absent"
    /\ body[r].password.t = "absent"
    /\ Sent422(r, "Missing field", "username")

\* the length rules of C3 other than the one for a short password
C3_OtherLengthRules(r) ==
  LET b == body[r]
  IN  /\ Len(b.username.s) = 0 =>
           Sent422(r, "Must be at least 1 characters long", "username")
      /\ (Len(b.username.s) >= 1 /\ Len(b.password.s) > 72) =>
           Sent422(r, "Must be at most 72 characters long", "password")
      /\ LengthsInBounds(b) =>
           /\ calls[r] # <<>>
           /\ calls[r][1] = "count"
           /\ \A i \in 1..Len(resp[r]) :
                resp[r][i].status = 422 =>
                  resp[r][i].body.message = "Username already taken"

\* C3 as stated: for a validated payload that passes the presence, type and
\* whitespace rules, a password of length 0..3 is rejected citing minimum 4
\* (whatever the username), besides the other length rules.
C3_AsStated ==
  \A r \in Reqs :
    (Registering(r) /\ pc[r] # "new" /\ WellFormed(body[r])) =>
      /\ C3_OtherLengthRules(r)
      /\ Len(body[r].password.s) <= 3 =>
           Sent422(r, "Must be at least 4 characters long", "password")

\* C3 amended: the same, where a password of length 0..3 is rejected citing
\* minimum 4 when the username is not empty; an empty username is reported
\* first, with its minimum 1.
C3_LengthBounds ==
  \A r \in Reqs :
    (Registering(r) /\ pc[r] # "new" /\ WellFormed(body[r])) =>
      /\ C3_OtherLengthRules(r)
      /\ (Len(body[r].username.s) >= 1 /\ Len(body[r].password.s) <= 3) =>
           Sent422(r, "Must be at least 4 characters long", "password")

\* C3 witness: an empty username with an over-long password is reported as
\* the username being too short.
C3_Witness ==
  \E r \in Reqs :
    /\ Registering(r)
    /\ WellFormed(body[r])
    /\ Len(body[r].username.s) = 0
    /\ Len(body[r].password.s) > 72
    /\ Sent422(r, "Must be at least 1 characters long", "username")

\* C4: no response body ever holds a user's password field.
C4_NoPasswordInResponses ==
  \A r \in Reqs : \A i \in 1..Len(resp[r]) :
    "password" \notin DOMAIN resp[r][i].body

\* C5: no two stored user records have the same username.
C5_UsernamesUnique ==
  \A i, j \in 1..Len(users) : i # j => users[i].username # users[j].username

\* the count of r resolves, without failing, while its username is stored
CountSeesExisting(r) ==
  /\ Registering(r)
  /\ pc[r] = "count"
  /\ Stepped(r)
  /\ fault'[r] = Null
  /\ \E i \in 1..Len(users) : users[i].username = body[r].username.s

\* C6: when the count of a Register request resolves while a user with its
\* username is stored, the request is answered 422 ValidationError
\* "Username already taken" at location username, the password is not
\* hashed and no user is created: the store is unchanged.
C6_TakenUsernameRejected ==
  [][\A r \in Reqs :
       CountSeesExisting(r) =>
         /\ pc'[r] = "done"
         /\ resp'[r] = <<[status |-> 422,
                          body |-> [code |-> 422, reason |-> "ValidationError",
                                    message |-> "Username already taken",
                                    location |-> "username"]]>>
         /\ calls'[r] = <<"count">>
         /\ carry'[r] = <<>>
         /\ users' = users]_vars

\* C6 witness: a registration of a stored username has been answered 422
\* "Username already taken".
C6_Witness ==
  \E r \in Reqs :
    /\ Registering(r)
    /\ pc[r] = "done"
    /\ Len(resp[r]) = 1
    /\ resp[r][1].status = 422
    /\ resp[r][1].body.message = "Username already taken"
    /\ Cardinality({i \in 1..Len(users) : users[i].username = body[r].username.s}) = 1

\* the update of r is applied by this step, to a user that exists
Applies(r, o) ==
  /\ op[r] = o
  /\ pc[r] = "update"
  /\ Stepped(r)
  /\ fault'[r] = Null
  /\ body[r].id \in 1..Len(users)

LocationIdsOf(locations) == {locations[k].id : k \in 1..Len(locations)}

Entries(locations) == {locations[k] : k \in 1..Len(locations)}

\* C7: Remove location leaves no entry with the given id and keeps every
\* other entry; applied when no entry has that id (as a second call with
\* the same locationId is), it changes nothing in the store.
C7_RemoveIdempotent ==
  [][\A r \in Reqs :
       Applies(r, "deleteLocation") =>
         LET before == users[body[r].id].locations
             after == users'[body[r].id].locations
         IN  /\ body[r].locationId \notin LocationIdsOf(after)
             /\ Entries(after) = {e \in Entries(before) : e.id # body[r].locationId}
             /\ Len(after) = Cardinality(Entries(after))
             /\ body[r].locationId \notin LocationIdsOf(before) => users' = users]_vars

\* C7 witness: two Remove location requests with the same locationId have
\* both been applied to a user that held that entry.
C7_Witness ==
  \E r, q \in Reqs :
    /\ r # q
    /\ op[r] = "deleteLocation" /\ op[q] = "deleteLocation"
    /\ body[r] = body[q]
    /\ body[r].id = 1 /\ body[r].locationId = 1
    /\ pc[r] = "done" /\ pc[q] = "done"
    /\ fault[r] = Null /\ fault[q] = Null
    /\ users # <<>>
    /\ users[1].locations = <<>>
    /\ resp[r] = resp[q]

\* C8: a finished Register request that passed validation and was rejected
\* as a duplicate is answered by exactly that ValidationError, unchanged;
\* one whose count, hashing or create failed is answered 500 with the
\* fixed body and nothing of the error; either way that is its only
\* response, and no 201 is sent.
C8_RegisterFailureResponses ==
  \A r \in Reqs :
    (Registering(r) /\ pc[r] = "done" /\ calls[r] # <<>>) =>
      /\ (fault[r] = Null /\ calls[r] = <<"count">>) =>
           resp[r] = <<[status |-> 422,
                        body |-> [code |-> 422, reason |-> "ValidationError",
                                  message |-> "Username already taken",
                                  location |-> "username"]]>>
      /\ fault[r] # Null =>
           resp[r] = <<[status |-> 500,
                        body |-> [code |-> 500,
                                  message |-> "Internal server error"]]>>

\* C8 witness: a registration whose create failed has been answered 500.
C8_Witness ==
  \E r \in Reqs :
    /\ Registering(r)
    /\ pc[r] = "done"
    /\ calls[r] = <<"count", "hashPassword", "create">>
    /\ fault[r] # Null
    /\ "reason" \in DOMAIN fault[r]
    /\ Len(resp[r]) = 1
    /\ resp[r][1].status = 500

\* C9: a finished Get user, List locations or Get metric request has
\* received exactly one response: 500 when its lookup failed, 404 when no
\* record was found, else 200.
C9_ReadsAlwaysAnswered ==
  \A r \in Reqs :
    (op[r] \in ReadOps /\ pc[r] = "done") =>
      /\ Len(resp[r]) = 1
      /\ fault[r] # Null => resp[r][1].status = 500
      /\ fault[r] = Null => resp[r][1].status \in {200, 404}
      /\ (fault[r] = Null /\ body[r].id \notin 1..Len(users)) =>
           resp[r][1].status = 404

\* an Add location that was applied is still reflected: its entry is held,
\* or a Remove location for that entry has been applied
AddReflected(r) ==
  LET added == resp[r][1].body.locations[Len(resp[r][1].body.locations)].id
  IN  \/ added \in LocationIdsOf(users[body[r].id].locations)
      \/ \E q \in Reqs :
           /\ op[q] = "deleteLocation"
           /\ pc[q] = "done"
           /\ fault[q] = Null
           /\ body[q].id = body[r].id
           /\ body[q].locationId = added

\* what one applied update changes in its user's document
TargetedChange(r) ==
  LET before == users[body[r].id]
      after == users'[body[r].id]
  IN  /\ after.id = before.id
      /\ after.username = before.username
      /\ after.password = before.password
      /\ op[r] = "addLocation" =>
           /\ after.metric = before.metric
           /\ Len(after.locations) = Len(before.locations) + 1
           /\ SubSeq(after.locations, 1, Len(before.locations)) = before.locations
           /\ after.locations[Len(after.locations)].name = body[r].name
           /\ after.locations[Len(after.locations)].id
                \notin LocationIdsOf(before.locations)
      /\ op[r] = "deleteLocation" =>
           /\ after.metric = before.metric
           /\ Entries(after.locations)
                = {e \in Entries(before.locations) : e.id # body[r].locationId}
      /\ op[r] = "setMetric" =>
           /\ after.metric = body[r].metric
           /\ after.locations = before.locations

\* C10: every change of a stored user's document is the targeted change of
\* one applied Add location, Remove location or Set metric on that user,
\* and touches no other user; so every applied Add location stays
\* reflected in its user's record whatever is interleaved with it.
C10_TargetedUpdates ==
  [][/\ \A i \in 1..Len(users) :
          /\ i \in 1..Len(users')
          /\ users'[i] # users[i] =>
               \E r \in Reqs :
                 /\ \E o \in UpdateOps : Applies(r, o)
                 /\ body[r].id = i
                 /\ TargetedChange(r)
                 /\ \A j \in 1..Len(users) : j # i => users'[j] = users[j]
     /\ \A r \in Reqs :
          (\E o \in UpdateOps : Applies(r, o)) =>
            /\ TargetedChange(r)
            /\ Len(users') = Len(users)
     /\ \A r \in Reqs :
          (/\ op'[r] = "addLocation"
           /\ pc'[r] = "done"
           /\ Len(resp'[r]) = 1
           /\ "locations" \in DOMAIN resp'[r][1].body) => AddReflected(r)']_vars

\* C10 witness: an Add location and a Set metric on the same user were in
\* flight together; the add has been applied while the set is still
\* pending, and the record holds the seed entry and the new one.
C10_Witness ==
  \E r, q \in Reqs :
    /\ op[r] = "addLocation" /\ pc[r] = "done" /\ fault[r] = Null
    /\ op[q] = "setMetric" /\ pc[q] = "update"
    /\ body[r].id = 1 /\ body[q].id = 1
    /\ users # <<>>
    /\ Len(users[1].locations) = 2

====
